---- MODULE Spec2Model ----
(***************************************************************************)
(* Model of bigquery_to_dataverse.py: the incremental sync from a BigQuery *)
(* table to Dataverse.  run_once pages the table by updated_at, maps each  *)
(* row to a PATCH, posts the PATCHes in $batch chunks through              *)
(* request_with_retry and persists the watermark after every page.         *)
(*                                                                         *)
(* Timestamps.  An instant is a natural number of half seconds after       *)
(* 2020-01-01T00:00:00 UTC (instant 2*s + h is second s plus h halves).    *)
(* A timestamp text is the sequence of characters that follow the common   *)
(* prefix "2020-01-01T00:00:0" in the ISO text; Python compares such texts *)
(* character by character, by code point.                                  *)
(***************************************************************************)
EXTENDS Integers, Sequences, FiniteSets, TLC

\* ------------------------------------------------------------------ bounds
\* Largest number of rows in the source table.
MaxRows == 2
\* Largest whole second carried by a row's updated_at.
MaxSec == 2
\* Largest PAGE_SIZE and BATCH_SIZE the configuration is drawn from.
MaxPageSize == 2
MaxBatchSize == 2
\* Pages one run may commit before the model stops fetching (the code has
\* no such limit: total_processed grows without bound when a run loops).
MaxPages == 3
\* HTTP requests one request_with_retry call may issue in the model.
MaxRequests == 9
\* Largest MAX_BATCH_PER_RUN the configuration is drawn from.
MaxCap == 1
\* Longest externalid string map_row_to_request is applied to on its own.
MaxIdLen == 3
\* Largest number of rows in the table one uninterrupted run is followed over.
MaxRunRows == 3

\* ------------------------------------------------------- program constants
MAX_RETRIES == 6
\* BASE_BACKOFF = 2.0 seconds, in milliseconds.
BASE_BACKOFF == 2000
DV_ENTITY == "new_customers"
ALT_KEY_NAME == "externalid"
\* DEFAULT_WATERMARK "2020-01-01T00:00:00Z", after the common prefix.
DEFAULT_WATERMARK == <<"0", "Z">>
WATERMARK_KEY == "last"

\* ------------------------------------------------------------- characters
\* Code point of a character that occurs in a timestamp text.
Ord(c) ==
  CASE c = "." -> 46
    [] c = "0" -> 48
    [] c = "1" -> 49
    [] c = "2" -> 50
    [] c = "3" -> 51
    [] c = "4" -> 52
    [] c = "5" -> 53
    [] c = "6" -> 54
    [] c = "7" -> 55
    [] c = "8" -> 56
    [] c = "9" -> 57
    [] c = "Z" -> 90

DigitChar(d) ==
  CASE d = 0 -> "0" [] d = 1 -> "1" [] d = 2 -> "2" [] d = 3 -> "3"
    [] d = 4 -> "4" [] d = 5 -> "5" [] d = 6 -> "6" [] d = 7 -> "7"
    [] d = 8 -> "8" [] d = 9 -> "9"

\* Python's str ordering a > b: the first differing character decides, and
\* a proper prefix is the smaller string.
RECURSIVE StrGreater(_, _)
StrGreater(a, b) ==
  IF a = <<>> THEN FALSE
  ELSE IF b = <<>> THEN TRUE
  ELSE IF Head(a) = Head(b) THEN StrGreater(Tail(a), Tail(b))
  ELSE Ord(Head(a)) > Ord(Head(b))

\* ------------------------------------------------------------- timestamps
\* datetime.isoformat() of a UTC instant with "+00:00" replaced by "Z":
\* the fraction is printed, with six digits, only when it is not zero.
IsoFormatZ(t) ==
  IF t % 2 = 0
    THEN <<DigitChar(t \div 2), "Z">>
    ELSE <<DigitChar(t \div 2), ".", "5", "0", "0", "0", "0", "0", "Z">>

\* The instant BigQuery binds for a TIMESTAMP parameter given as text.
ParseTimestamp(s) ==
  2 * (Ord(s[1]) - 48) + (IF s[2] = "." THEN (Ord(s[3]) - 48) \div 5 ELSE 0)

\* The updated_at values a table row may carry: every half second after the
\* default watermark up to MaxSec seconds.
Instants == 1 .. (2 * MaxSec)

Min(a, b) == IF a <= b THEN a ELSE b

\* ------------------------------------------------------------ identifiers
\* An externalid is None or a string, a sequence of characters.
NoneId == <<"None">>
IdChars == {"'", "a", "b"}
IdStrings == UNION {[1 .. n -> IdChars] : n \in 0 .. MaxIdLen}
\* The externalids the rows of the source table are drawn from.
TableIds == {NoneId, <<"a">>}

\* resp.headers.get("Retry-After") when the response has no such header.
NoHeader == <<"None">>

\* ------------------------------------------------------------------ state
VARIABLES
  table,              \* the source table, in ORDER BY updated_at order
  PAGE_SIZE,          \* configuration, fixed for the life of the table
  BATCH_SIZE,
  MAX_BATCH_PER_RUN,  \* 0 stands for None (no cap)
  wm_file,            \* content of WATERMARK_FILE
  tmp_file,           \* content of WATERMARK_FILE + ".tmp"
  pc,                 \* position of the process in run_once
  newest_wm,          \* run_once locals
  page_latest,
  rows,               \* the fetched page, as indices into table
  changes,
  i,                  \* offset of the next chunk in changes
  total_processed,
  call,               \* state of the request_with_retry call
  attempt,
  status,             \* status code of the last response, 0 before any
  nreq,               \* history: HTTP requests issued by this call
  nsleep,             \* history: sleeps of this call
  first_final,        \* history: index and status of the first response
                      \* of this call that was not transient
  wait,               \* the last wait of this call, in milliseconds
  retry_after,        \* history: Retry-After of the response retried last
  jitter,             \* history: rand_jitter() drawn for the last wait
  accepted,           \* history: rows in a batch the target accepted
  page_accepted,      \* history: rows of this page in an accepted batch
  save_ok,            \* history: every save_watermark so far replaced the
                      \* file for a page whose chunks had all been accepted
  saved,              \* history: values passed to save_watermark this run
  loaded,             \* history: watermark loaded at the start of this run
  wm0,                \* history: watermark the first run started from
  crash_page,         \* history: the page a kill left sent but uncommitted
  prev_file,          \* history: WATERMARK_FILE when save_watermark began
  fetched,            \* history: the pages fetch_rows_after returned this run
  sent,               \* history: the batch envelopes posted this run, each
                      \* with the number of its page and the rows it is for
  mrow,               \* input and output of map_row_to_request (SpecMap)
  mout

cfgVars == <<table, PAGE_SIZE, BATCH_SIZE, MAX_BATCH_PER_RUN>>
fileVars == <<wm_file, tmp_file>>
runVars == <<pc, newest_wm, page_latest, rows, changes, i, total_processed>>
httpVars == <<call, attempt, status, nreq, nsleep, first_final, wait, retry_after, jitter>>
histVars ==
  <<accepted, page_accepted, save_ok, saved, loaded, wm0, crash_page, prev_file,
    fetched, sent>>
mapVars == <<mrow, mout>>
vars == <<cfgVars, fileVars, runVars, httpVars, histVars, mapVars>>

\* ------------------------------------------------------ map_row_to_request
\* A replace that stops after the first single quote.
ReplaceFirstQuote(s) ==
  IF \E k \in 1 .. Len(s) : s[k] = "'"
    THEN LET k == CHOOSE k \in 1 .. Len(s) : s[k] = "'" /\ \A m \in 1 .. k - 1 : s[m] # "'"
         IN SubSeq(s, 1, k) \o <<"'">> \o SubSeq(s, k + 1, Len(s))
    ELSE s

\* str.replace("'", "''"): every single quote becomes two, left to right.
RECURSIVE ReplaceQuotes(_)
ReplaceQuotes(s) ==
  IF s = <<>> THEN <<>>
  ELSE IF Head(s) = "'" THEN <<"'", "'">> \o ReplaceQuotes(Tail(s))
  ELSE <<Head(s)>> \o ReplaceQuotes(Tail(s))

\* ext: the escaped externalid, or "" when the externalid is None.
EscapedId(externalid) ==
  IF externalid # NoneId THEN ReplaceQuotes(externalid) ELSE <<>>

\* f"{DV_ENTITY}({ALT_KEY_NAME}='{ext}')"
UrlPath(ext) == <<DV_ENTITY, "(", ALT_KEY_NAME, "=", "'">> \o ext \o <<"'", ")">>

\* map_row_to_request never raises: it builds the body and the path for
\* every row.  raised records whether the call ended in an exception.
map_row_to_request(row) ==
  [raised |-> FALSE,
   url_path |-> UrlPath(EscapedId(row.externalid)),
   body |-> [new_externalid |-> row.externalid]]

\* --------------------------------------------------------- watermark file
FileAbsent == <<"ENOENT">>

\* json.dump({"last": wm}, f): the text {"last": "<wm>"}, by character
\* (the key as one token).
JsonDump(wm) == <<"{", WATERMARK_KEY, ":", "\"">> \o wm \o <<"\"", "}">>

\* A complete JSON object whose one member is "last" with a string value:
\* what save_watermark writes.
JsonValid(f) ==
  /\ Len(f) >= 6
  /\ SubSeq(f, 1, 4) = <<"{", WATERMARK_KEY, ":", "\"">>
  /\ SubSeq(f, Len(f) - 1, Len(f)) = <<"\"", "}">>
  /\ \A k \in 5 .. Len(f) - 2 : f[k] # "\""

\* A file that exists and that open() cannot read (PermissionError).
FileUnreadable == <<"EACCES">>

\* What json.load gives for the JSON null.
JsonNull == <<"None">>

\* The member names of the JSON objects considered.
JsonKeys == {WATERMARK_KEY, "other"}

\* A JSON string: two quotation marks with no quotation mark between.
JsonString(v) ==
  /\ Len(v) >= 2
  /\ v[1] = "\""
  /\ v[Len(v)] = "\""
  /\ \A k \in 2 .. Len(v) - 1 : v[k] # "\""

\* The scalar values considered: null and strings.
JsonScalar(v) == v = <<"null">> \/ JsonString(v)

\* A JSON object: empty, or of one member with a scalar value.
JsonObject(f) ==
  \/ f = <<"{", "}">>
  \/ /\ Len(f) >= 5
     /\ f[1] = "{"
     /\ f[2] \in JsonKeys
     /\ f[3] = ":"
     /\ f[Len(f)] = "}"
     /\ JsonScalar(SubSeq(f, 4, Len(f) - 1))

\* json.load returns for a JSON document (an object, an empty array or a
\* scalar) and raises ValueError for every other text.
JsonDocument(f) == JsonObject(f) \/ f = <<"[", "]">> \/ JsonScalar(f)

\* The Python value of a JSON scalar.
JsonDecode(v) == IF v = <<"null">> THEN JsonNull ELSE SubSeq(v, 2, Len(v) - 1)

\* data.get("last", DEFAULT_WATERMARK) on a dict: the value of the member
\* when the key is present, whatever the value is, else the default.
DictGetLast(f) ==
  IF Len(f) >= 5 /\ f[2] = WATERMARK_KEY
    THEN JsonDecode(SubSeq(f, 4, Len(f) - 1))
    ELSE DEFAULT_WATERMARK

\* os.path.exists is false: the default.  open or json.load raises, or
\* data is no dict and data.get raises AttributeError: except Exception
\* logs a warning and the default is returned.  Otherwise the data.get.
load_watermark(f) ==
  IF f = FileAbsent THEN DEFAULT_WATERMARK
  ELSE IF f = FileUnreadable \/ ~JsonDocument(f) THEN DEFAULT_WATERMARK
  ELSE IF ~JsonObject(f) THEN DEFAULT_WATERMARK
  ELSE DictGetLast(f)

\* ------------------------------------------------------- fetch_rows_after
\* WHERE updated_at > @last_watermark ORDER BY updated_at LIMIT limit, over
\* the table kept in ORDER BY order; a row is named by its index.
fetch_rows_after(watermark, limit) ==
  LET idx == [k \in 1 .. Len(table) |-> k]
      hit(k) == table[k].updated_at > ParseTimestamp(watermark)
      all == SelectSeq(idx, hit)
  IN SubSeq(all, 1, Min(limit, Len(all)))

\* ------------------------------------------------------------------- Init
RowValues == [externalid : TableIds, updated_at : Instants]

Sorted(t) == \A k \in 1 .. Len(t) - 1 : t[k].updated_at <= t[k + 1].updated_at

Tables == {t \in UNION {[1 .. n -> RowValues] : n \in 0 .. MaxRows} : Sorted(t)}

NoRow == [externalid |-> NoneId, updated_at |-> 0]
NoOut == [raised |-> FALSE, url_path |-> <<>>, body |-> [new_externalid |-> NoneId]]

\* The locals of a process that has not started run_once.
FreshRun ==
  /\ newest_wm = DEFAULT_WATERMARK
  /\ page_latest = DEFAULT_WATERMARK
  /\ rows = <<>>
  /\ changes = <<>>
  /\ i = 0
  /\ total_processed = 0

\* The same locals, as the next state of a process that ends.
ResetRun ==
  /\ newest_wm' = DEFAULT_WATERMARK
  /\ page_latest' = DEFAULT_WATERMARK
  /\ rows' = <<>>
  /\ changes' = <<>>
  /\ i' = 0
  /\ total_processed' = 0
  /\ call' = "idle"
  /\ attempt' = 0
  /\ status' = 0
  /\ nreq' = 0
  /\ nsleep' = 0
  /\ first_final' = <<0, 0>>
  /\ wait' = 0
  /\ retry_after' = NoHeader
  /\ jitter' = 0

FreshCall ==
  /\ call = "idle"
  /\ attempt = 0
  /\ status = 0
  /\ nreq = 0
  /\ nsleep = 0
  /\ first_final = <<0, 0>>
  /\ wait = 0
  /\ retry_after = NoHeader
  /\ jitter = 0

InitHist ==
  /\ accepted = {}
  /\ page_accepted = {}
  /\ save_ok = TRUE
  /\ saved = <<>>
  /\ loaded = DEFAULT_WATERMARK
  /\ wm0 = <<>>
  /\ crash_page = <<>>
  /\ prev_file = FileAbsent
  /\ fetched = <<>>
  /\ sent = <<>>

Init ==
  /\ table \in Tables
  /\ PAGE_SIZE \in 1 .. MaxPageSize
  /\ BATCH_SIZE \in 1 .. MaxBatchSize
  /\ MAX_BATCH_PER_RUN \in {0, MaxCap}
  /\ wm_file = FileAbsent
  /\ tmp_file = FileAbsent
  /\ pc = "Idle"
  /\ FreshRun
  /\ FreshCall
  /\ InitHist
  /\ mrow = NoRow
  /\ mout = NoOut

\* ------------------------------------------------------------ Retry-After
\* The HTTP-date form of a Retry-After value, as one token.
HttpDate == <<"Wed, 21 Oct 2015 07:28:00 GMT">>

\* What a response carries as Retry-After: nothing, delay-seconds (decimal
\* digits) or an HTTP-date.
RetryAfterHeaders == {NoHeader, <<"0">>, <<"1">>, <<"1", "2", "0">>, HttpDate}

Digits == {DigitChar(d) : d \in 0 .. 9}

\* float(text) returns for a text of decimal digits and raises ValueError
\* for the other texts considered.
FloatRaises(h) == h = <<>> \/ \E k \in 1 .. Len(h) : h[k] \notin Digits

\* float(text) of a text of decimal digits, as milliseconds.
RECURSIVE FloatMs(_)
FloatMs(h) ==
  IF h = <<>> THEN 0
  ELSE (Ord(h[1]) - Ord("0")) * (10 ^ (Len(h) - 1)) * 1000 + FloatMs(Tail(h))

\* The values rand_jitter() is drawn from, in milliseconds:
\* random.uniform(0.0, 0.5) is 0.5 * random.random(), at least 0 and
\* less than half a second.
Jitters == {0, 499}

\* The jitter the code draws: rand_jitter() is called on the backoff
\* branches only.
JitterDrawn(h, j) == IF h # NoHeader /\ h # <<>> /\ ~FloatRaises(h) THEN 0 ELSE j

\* wait, in milliseconds, for retry number a after a response whose
\* Retry-After is h, with j the value of rand_jitter().
Wait(a, h, j) ==
  IF h # NoHeader /\ h # <<>>
    THEN IF ~FloatRaises(h)
           THEN FloatMs(h)
           ELSE BASE_BACKOFF * (2 ^ (a - 1)) + j
    ELSE BASE_BACKOFF * (2 ^ (a - 1)) + j

\* ----------------------------------------------------- build_batch_payload
\* The parts of the payload in order: the batch start and the change set
\* header, one PATCH part per change, the end of the change set and the end
\* of the batch.  The boundaries are fresh uuid4 texts.
Part(kind, url_path, body) == [kind |-> kind, url_path |-> url_path, body |-> body]

\* A loop over the changes that adds each PATCH part in front of the
\* earlier ones.
RECURSIVE PatchPartsReversed(_)
PatchPartsReversed(cs) ==
  IF cs = <<>> THEN <<>>
  ELSE PatchPartsReversed(Tail(cs)) \o <<Part("PATCH", Head(cs).url_path, Head(cs).body)>>

\* for i, (url_path, body) in enumerate(changes): parts.append(...)
RECURSIVE PatchParts(_)
PatchParts(cs) ==
  IF cs = <<>> THEN <<>>
  ELSE <<Part("PATCH", Head(cs).url_path, Head(cs).body)>> \o PatchParts(Tail(cs))

build_batch_payload(cs) ==
  <<Part("batch_start", <<>>, <<>>), Part("changeset_header", <<>>, <<>>)>>
    \o PatchParts(cs)
    \o <<Part("changeset_end", <<>>, <<>>), Part("batch_end", <<>>, <<>>)>>

\* --------------------------------------------------- request_with_retry
SuccessStatuses == {200, 201, 202, 204}

\* A should_retry that also retries a 400.
should_retry_bad_request(s) == s \in {400, 429, 500, 502, 503, 504}

should_retry(s) == s \in {429, 500, 502, 503, 504}

\* A budget check that is off by one: attempt <= MAX_RETRIES.
RetryAllowedOffByOne(a) == a <= MAX_RETRIES

\* attempt < MAX_RETRIES: the budget allows one more retry.
RetryAllowed(a) == a < MAX_RETRIES

\* The transient statuses of the specification, for the history only.
TransientStatuses == {429, 500, 502, 503, 504}

\* requests.Response.raise_for_status raises HTTPError for 4xx and 5xx
\* statuses and returns None for every other status.
RaiseForStatusRaises(s) == 400 <= s /\ s < 600

\* The statuses a response is drawn from.
Statuses ==
  {100, 200, 201, 202, 203, 204, 206, 301, 304, 400, 401, 404, 429, 500,
   501, 502, 503, 504}

\* The statuses of the responses that are tried with a Retry-After header.
RetryAfterStatuses == {429, 500, 502, 503, 504}

\* The statuses the target answers a $batch POST of run_once with.
BatchStatuses == {200, 503, 400}

\* The rows whose operations the chunk at offset i holds.
ChunkRows == {rows[j] : j \in (i + 1) .. Min(i + BATCH_SIZE, Len(rows))}

\* attempt = 0: the call begins.
StartCall ==
  /\ call' = "running"
  /\ attempt' = 0
  /\ status' = 0
  /\ nreq' = 0
  /\ nsleep' = 0
  /\ first_final' = <<0, 0>>
  /\ wait' = 0
  /\ retry_after' = NoHeader
  /\ jitter' = 0

\* The call is over: its locals are gone.
EndCall ==
  /\ call' = "idle"
  /\ attempt' = 0
  /\ status' = 0
  /\ nreq' = 0
  /\ nsleep' = 0
  /\ first_final' = <<0, 0>>
  /\ wait' = 0
  /\ retry_after' = NoHeader
  /\ jitter' = 0

\* The chunk at offset i: changes[i:i+BATCH_SIZE].
Chunk == SubSeq(changes, i + 1, Min(i + BATCH_SIZE, Len(changes)))

\* One iteration of the while loop: the request, then return, sleep and
\* retry, or raise_for_status (after which the loop goes on when nothing
\* was raised).  s is the status of the response, h its Retry-After and j
\* the value rand_jitter() returns when it is called.  The first request
\* of a post_batch call puts the envelope built for the chunk on the wire.
HttpAttempt(s, h, j) ==
  /\ call = "running"
  /\ nreq < MaxRequests
  /\ nreq' = nreq + 1
  /\ status' = s
  /\ first_final' =
       IF first_final[1] = 0 /\ s \notin TransientStatuses THEN <<nreq + 1, s>> ELSE first_final
  /\ IF s \in SuccessStatuses
       THEN /\ call' = "returned"
            /\ UNCHANGED <<attempt, nsleep, wait, retry_after, jitter>>
       ELSE IF should_retry(s) /\ RetryAllowed(attempt)
         THEN /\ attempt' = attempt + 1
              /\ retry_after' = h
              /\ jitter' = JitterDrawn(h, j)
              /\ wait' = Wait(attempt', h, j)
              /\ nsleep' = nsleep + 1
              /\ call' = "running"
         ELSE /\ call' = IF RaiseForStatusRaises(s) THEN "raised" ELSE "running"
              /\ UNCHANGED <<attempt, nsleep, wait, retry_after, jitter>>
  /\ accepted' = IF s \in SuccessStatuses THEN accepted \cup ChunkRows ELSE accepted
  /\ page_accepted' =
       IF s \in SuccessStatuses THEN page_accepted \cup ChunkRows ELSE page_accepted
  /\ sent' =
       IF pc = "Sending" /\ nreq = 0
         THEN Append(sent, [page |-> Len(fetched),
                            rows |-> SubSeq(rows, i + 1, Min(i + BATCH_SIZE, Len(rows))),
                            payload |-> build_batch_payload(Chunk)])
         ELSE sent
  /\ UNCHANGED <<cfgVars, fileVars, runVars, mapVars>>
  /\ UNCHANGED <<save_ok, saved, loaded, wm0, crash_page, prev_file, fetched>>

\* ---------------------------------------------------------------- run_once
\* The configuration check or acquire_token raises.
StartFails ==
  /\ pc = "Idle"
  /\ pc' = "Failed"
  /\ UNCHANGED <<newest_wm, page_latest, rows, changes, i, total_processed>>
  /\ UNCHANGED <<cfgVars, fileVars, httpVars, histVars, mapVars>>

\* A start that pages from DEFAULT_WATERMARK whatever was loaded.
StartRunFromDefault ==
  /\ pc = "Idle"
  /\ newest_wm' = DEFAULT_WATERMARK
  /\ total_processed' = 0
  /\ pc' = "LoopTop"
  /\ loaded' = load_watermark(wm_file)
  /\ saved' = <<>>
  /\ prev_file' = FileAbsent
  /\ wm0' = IF wm0 = <<>> THEN loaded' ELSE wm0
  /\ UNCHANGED <<page_latest, rows, changes, i>>
  /\ UNCHANGED <<cfgVars, fileVars, httpVars, mapVars>>
  /\ fetched' = <<>>
  /\ sent' = <<>>
  /\ UNCHANGED <<accepted, page_accepted, save_ok, crash_page>>

\* watermark = load_watermark(); total_processed = 0; newest_wm = watermark
StartRun ==
  /\ pc = "Idle"
  /\ newest_wm' = load_watermark(wm_file)
  /\ total_processed' = 0
  /\ pc' = "LoopTop"
  /\ loaded' = newest_wm'
  /\ saved' = <<>>
  /\ prev_file' = FileAbsent
  /\ wm0' = IF wm0 = <<>> THEN newest_wm' ELSE wm0
  /\ UNCHANGED <<page_latest, rows, changes, i>>
  /\ UNCHANGED <<cfgVars, fileVars, httpVars, mapVars>>
  /\ fetched' = <<>>
  /\ sent' = <<>>
  /\ UNCHANGED <<accepted, page_accepted, save_ok, crash_page>>

\* A loop head without "if not rows: break": an empty page goes on to the
\* mapping, the chunk loop and the commit.
LoopTopNoEmptyBreak ==
  /\ pc = "LoopTop"
  /\ Len(saved) < MaxPages
  /\ IF MAX_BATCH_PER_RUN # 0 /\ total_processed >= MAX_BATCH_PER_RUN
       THEN /\ pc' = "Done"
            /\ UNCHANGED <<rows, page_accepted, fetched>>
       ELSE /\ rows' = fetch_rows_after(newest_wm, PAGE_SIZE)
            /\ pc' = "Mapping"
            /\ page_accepted' = {}
            /\ fetched' = Append(fetched, rows')
  /\ UNCHANGED <<newest_wm, page_latest, changes, i, total_processed>>
  /\ UNCHANGED <<cfgVars, fileVars, httpVars, mapVars>>
  /\ UNCHANGED <<accepted, save_ok, saved, loaded, wm0, crash_page, prev_file, sent>>

\* The head of the while loop: the cap check, then the fetch.
LoopTop ==
  /\ pc = "LoopTop"
  /\ Len(saved) < MaxPages
  /\ IF MAX_BATCH_PER_RUN # 0 /\ total_processed >= MAX_BATCH_PER_RUN
       THEN /\ pc' = "Done"
            /\ UNCHANGED <<rows, page_accepted, fetched>>
       ELSE /\ rows' = fetch_rows_after(newest_wm, PAGE_SIZE)
            /\ pc' = IF rows' = <<>> THEN "Done" ELSE "Mapping"
            /\ page_accepted' = {}
            /\ fetched' = Append(fetched, rows')
  /\ UNCHANGED <<newest_wm, page_latest, changes, i, total_processed>>
  /\ UNCHANGED <<cfgVars, fileVars, httpVars, mapVars>>
  /\ UNCHANGED <<accepted, save_ok, saved, loaded, wm0, crash_page, prev_file, sent>>

\* The query fails: the exception leaves run_once.
FetchFails ==
  /\ pc = "LoopTop"
  /\ ~(MAX_BATCH_PER_RUN # 0 /\ total_processed >= MAX_BATCH_PER_RUN)
  /\ pc' = "Failed"
  /\ UNCHANGED <<newest_wm, page_latest, rows, changes, i, total_processed>>
  /\ UNCHANGED <<cfgVars, fileVars, httpVars, histVars, mapVars>>

\* cand of one row: a BigQuery TIMESTAMP arrives as an aware UTC datetime.
Cand(r) == IsoFormatZ(table[r].updated_at)

\* if cand > page_latest: page_latest = cand, over the rows in order.
RECURSIVE PageLatest(_, _)
PageLatest(pl, rs) ==
  IF rs = <<>> THEN pl
  ELSE PageLatest(IF StrGreater(Cand(Head(rs)), pl) THEN Cand(Head(rs)) ELSE pl, Tail(rs))

\* The for loop over the rows of the page; an exception of
\* map_row_to_request leaves run_once.  The chunk loop that follows has
\* no iteration when changes is empty.
MapPage ==
  /\ pc = "Mapping"
  /\ LET outs == [j \in 1 .. Len(rows) |-> map_row_to_request(table[rows[j]])]
     IN IF \E j \in 1 .. Len(rows) : outs[j].raised
          THEN /\ pc' = "Failed"
               /\ UNCHANGED <<changes, page_latest, i>>
          ELSE /\ changes' = outs
               /\ page_latest' = PageLatest(newest_wm, rows)
               /\ i' = 0
               /\ pc' = IF Len(outs) = 0 THEN "Commit" ELSE "Sending"
  /\ crash_page' = <<>>
  /\ UNCHANGED <<newest_wm, rows, total_processed>>
  /\ UNCHANGED <<cfgVars, fileVars, httpVars, mapVars>>
  /\ UNCHANGED <<accepted, page_accepted, save_ok, saved, loaded, wm0, prev_file, fetched, sent>>

\* chunk = changes[i:i+BATCH_SIZE]; post_batch(...) enters request_with_retry.
PostChunk ==
  /\ pc = "Sending"
  /\ call = "idle"
  /\ i < Len(changes)
  /\ StartCall
  /\ UNCHANGED <<cfgVars, fileVars, runVars, histVars, mapVars>>

\* post_batch returned: the for loop steps to the next chunk, or ends.
ChunkReturned ==
  /\ pc = "Sending"
  /\ call = "returned"
  /\ EndCall
  /\ i' = i + BATCH_SIZE
  /\ pc' = IF i' >= Len(changes) THEN "Commit" ELSE "Sending"
  /\ UNCHANGED <<newest_wm, page_latest, rows, changes, total_processed>>
  /\ UNCHANGED <<cfgVars, fileVars, histVars, mapVars>>

\* A send loop that swallows the exception of post_batch and goes on.
ChunkRaisedSwallowed ==
  /\ pc = "Sending"
  /\ call = "raised"
  /\ EndCall
  /\ i' = i + BATCH_SIZE
  /\ pc' = IF i' >= Len(changes) THEN "Commit" ELSE "Sending"
  /\ UNCHANGED <<newest_wm, page_latest, rows, changes, total_processed>>
  /\ UNCHANGED <<cfgVars, fileVars, histVars, mapVars>>

\* A send loop that, when post_batch raises, goes on to commit the page.
ChunkRaisedCommits ==
  /\ pc = "Sending"
  /\ call = "raised"
  /\ EndCall
  /\ pc' = "Commit"
  /\ UNCHANGED <<newest_wm, page_latest, rows, changes, i, total_processed>>
  /\ UNCHANGED <<cfgVars, fileVars, histVars, mapVars>>

\* post_batch raised: the exception leaves run_once and the process.
ChunkRaised ==
  /\ pc = "Sending"
  /\ call = "raised"
  /\ EndCall
  /\ pc' = "Failed"
  /\ UNCHANGED <<newest_wm, page_latest, rows, changes, i, total_processed>>
  /\ UNCHANGED <<cfgVars, fileVars, histVars, mapVars>>

\* newest_wm = page_latest; total_processed += len(rows); save_watermark
\* is called with newest_wm.
CommitPage ==
  /\ pc = "Commit"
  /\ newest_wm' = page_latest
  /\ total_processed' = total_processed + Len(rows)
  /\ saved' = Append(saved, newest_wm')
  /\ prev_file' = wm_file
  /\ pc' = "SaveOpen"
  /\ UNCHANGED <<page_latest, rows, changes, i>>
  /\ UNCHANGED <<cfgVars, fileVars, httpVars, mapVars>>
  /\ UNCHANGED <<accepted, page_accepted, save_ok, loaded, wm0, crash_page, fetched, sent>>

\* ---------------------------------------------------------- save_watermark
\* A save_watermark that opens WATERMARK_FILE itself for writing.
SaveOpenInPlace ==
  /\ pc = "SaveOpen"
  /\ wm_file' = <<>>
  /\ tmp_file' = <<>>
  /\ pc' = "SaveWrite"
  /\ UNCHANGED <<newest_wm, page_latest, rows, changes, i, total_processed>>
  /\ UNCHANGED <<cfgVars, httpVars, histVars, mapVars>>

\* open(tmp, "w"): the temporary file is created or truncated.
SaveOpen ==
  /\ pc = "SaveOpen"
  /\ tmp_file' = <<>>
  /\ pc' = "SaveWrite"
  /\ UNCHANGED wm_file
  /\ UNCHANGED <<newest_wm, page_latest, rows, changes, i, total_processed>>
  /\ UNCHANGED <<cfgVars, httpVars, histVars, mapVars>>

\* A save_watermark whose json.dump writes WATERMARK_FILE, not the
\* temporary file.
SaveWriteInPlace ==
  /\ pc = "SaveWrite"
  /\ wm_file' = JsonDump(newest_wm)
  /\ tmp_file' = JsonDump(newest_wm)
  /\ pc' = "SaveReplace"
  /\ UNCHANGED <<newest_wm, page_latest, rows, changes, i, total_processed>>
  /\ UNCHANGED <<cfgVars, httpVars, histVars, mapVars>>

\* Where a write of the JSON text may stop short: inside the value.
WriteCut == Len(<<"{", WATERMARK_KEY, ":", "\"">>) + 1

\* json.dump and the close of the file: the text reaches the temporary
\* file in one write, or in two with the first ending at WriteCut.
SaveWrite ==
  /\ pc = "SaveWrite"
  /\ \E k \in {WriteCut, Len(JsonDump(newest_wm))} :
       /\ k > Len(tmp_file)
       /\ tmp_file' = SubSeq(JsonDump(newest_wm), 1, k)
       /\ pc' = IF k = Len(JsonDump(newest_wm)) THEN "SaveReplace" ELSE "SaveWrite"
  /\ UNCHANGED wm_file
  /\ UNCHANGED <<newest_wm, page_latest, rows, changes, i, total_processed>>
  /\ UNCHANGED <<cfgVars, httpVars, histVars, mapVars>>

\* os.replace(tmp, WATERMARK_FILE)
SaveReplace ==
  /\ pc = "SaveReplace"
  /\ wm_file' = tmp_file
  /\ tmp_file' = FileAbsent
  /\ save_ok' = (save_ok /\ i >= Len(changes) /\ \A j \in 1 .. Len(rows) : rows[j] \in page_accepted)
  /\ pc' = "PageEnd"
  /\ UNCHANGED <<newest_wm, page_latest, rows, changes, i, total_processed>>
  /\ UNCHANGED <<cfgVars, httpVars, mapVars>>
  /\ UNCHANGED <<accepted, page_accepted, saved, loaded, wm0, crash_page, prev_file, fetched, sent>>

\* if len(rows) < PAGE_SIZE: break
PageEnd ==
  /\ pc = "PageEnd"
  /\ pc' = IF Len(rows) < PAGE_SIZE THEN "Done" ELSE "LoopTop"
  /\ UNCHANGED <<newest_wm, page_latest, rows, changes, i, total_processed>>
  /\ UNCHANGED <<cfgVars, fileVars, httpVars, histVars, mapVars>>

\* ------------------------------------------------------------ the process
\* The positions at which a page's batches were all sent and its
\* save_watermark has not completed.
SentNotSaved == pc \in {"Commit", "SaveOpen", "SaveWrite", "SaveReplace"}

\* The positions from the call of save_watermark to the end of the page.
InSave == pc \in {"SaveOpen", "SaveWrite", "SaveReplace", "PageEnd"}

\* The process is killed; the files stay, a new process starts later.  Of
\* the history, the value and the file of a save_watermark under way are
\* kept until the next run starts.
Crash ==
  /\ pc \notin {"Idle", "Done", "Failed"}
  /\ pc' = "Idle"
  /\ ResetRun
  /\ crash_page' = IF SentNotSaved THEN rows ELSE <<>>
  /\ saved' = IF InSave THEN <<saved[Len(saved)]>> ELSE <<>>
  /\ prev_file' = IF InSave THEN prev_file ELSE FileAbsent
  /\ loaded' = DEFAULT_WATERMARK
  /\ page_accepted' = {}
  /\ fetched' = <<>>
  /\ sent' = <<>>
  /\ UNCHANGED <<cfgVars, fileVars, mapVars>>
  /\ UNCHANGED <<accepted, save_ok, wm0>>

\* The process ended (run_once returned or raised); a new one starts later.
Restart ==
  /\ pc \in {"Done", "Failed"}
  /\ pc' = "Idle"
  /\ ResetRun
  /\ crash_page' = <<>>
  /\ saved' = <<>>
  /\ prev_file' = FileAbsent
  /\ loaded' = DEFAULT_WATERMARK
  /\ page_accepted' = {}
  /\ fetched' = <<>>
  /\ sent' = <<>>
  /\ UNCHANGED <<cfgVars, fileVars, mapVars>>
  /\ UNCHANGED <<accepted, save_ok, wm0>>

Next ==
  \/ StartFails
  \/ StartRun
  \/ LoopTop
  \/ FetchFails
  \/ MapPage
  \/ PostChunk
  \/ \E s \in BatchStatuses : HttpAttempt(s, NoHeader, 0)
  \/ ChunkReturned
  \/ ChunkRaised
  \/ CommitPage
  \/ SaveOpen
  \/ SaveWrite
  \/ SaveReplace
  \/ PageEnd
  \/ Crash
  \/ Restart

Spec == Init /\ [][Next]_vars

\* ------------------------------------------- request_with_retry on its own
\* A caller enters request_with_retry, with any earlier call over.
NewCall ==
  /\ call # "running"
  /\ StartCall
  /\ UNCHANGED <<cfgVars, fileVars, runVars, histVars, mapVars>>

InitRetry ==
  /\ table = <<>>
  /\ PAGE_SIZE = 1
  /\ BATCH_SIZE = 1
  /\ MAX_BATCH_PER_RUN = 0
  /\ wm_file = FileAbsent
  /\ tmp_file = FileAbsent
  /\ pc = "Idle"
  /\ FreshRun
  /\ FreshCall
  /\ InitHist
  /\ mrow = NoRow
  /\ mout = NoOut

NextRetry ==
  \/ NewCall
  \/ \E s \in Statuses \ RetryAfterStatuses : HttpAttempt(s, NoHeader, 0)
  \/ \E s \in RetryAfterStatuses, h \in RetryAfterHeaders, j \in Jitters :
       HttpAttempt(s, h, j)

SpecRetry == InitRetry /\ [][NextRetry]_vars

\* ------------------------------------------- map_row_to_request on its own
MapInputs == [externalid : {NoneId} \cup IdStrings, updated_at : Instants]

InitMap ==
  /\ table = <<>>
  /\ PAGE_SIZE = 1
  /\ BATCH_SIZE = 1
  /\ MAX_BATCH_PER_RUN = 0
  /\ wm_file = FileAbsent
  /\ tmp_file = FileAbsent
  /\ pc = "Idle"
  /\ FreshRun
  /\ FreshCall
  /\ InitHist
  /\ mrow \in MapInputs
  /\ mout = NoOut

\* The call map_row_to_request(mrow).
MapRow ==
  /\ mout = NoOut
  /\ mout' = map_row_to_request(mrow)
  /\ UNCHANGED <<cfgVars, fileVars, runVars, httpVars, histVars, mrow>>

NextMap == MapRow

SpecMap == InitMap /\ [][NextMap]_vars

\* --------------------------------------------------- load_watermark on its own
Prefixes(f) == {SubSeq(f, 1, k) : k \in 0 .. Len(f)}

\* The timestamp texts save_watermark can have written.
WatermarkTexts == {IsoFormatZ(t) : t \in 0 .. (2 * MaxSec)}

\* The JSON scalars a watermark file is tried with.
JsonScalars == {<<"null">>} \cup {<<"\"">> \o w \o <<"\"">> : w \in WatermarkTexts}

\* The contents WATERMARK_FILE is tried with: none, unreadable, every
\* prefix of a text save_watermark writes (an empty file and cut-off texts
\* among them), and JSON documents of other shapes.
LoadFiles ==
  {FileAbsent, FileUnreadable, <<"[", "]">>, <<"{", "}">>}
    \cup UNION {Prefixes(JsonDump(w)) : w \in WatermarkTexts}
    \cup {<<"{", k, ":">> \o v \o <<"}">> : k \in JsonKeys, v \in JsonScalars}
    \cup JsonScalars

InitLoad ==
  /\ table = <<>>
  /\ PAGE_SIZE = 1
  /\ BATCH_SIZE = 1
  /\ MAX_BATCH_PER_RUN = 0
  /\ wm_file \in LoadFiles
  /\ tmp_file = FileAbsent
  /\ pc = "Idle"
  /\ FreshRun
  /\ FreshCall
  /\ InitHist
  /\ mrow = NoRow
  /\ mout = NoOut

\* run_once up to the return of load_watermark.
NextLoad == StartRun

SpecLoad == InitLoad /\ [][NextLoad]_vars

\* ------------------------------------------------- one uninterrupted run
\* The externalid of row k of the tables one run is followed over: usable
\* keys, different for neighbouring rows.
RunId(k) == IF k % 2 = 1 THEN <<"a">> ELSE <<"b">>

\* The tables one run is followed over.
RunTables ==
  {t \in UNION {{[k \in 1 .. n |-> [externalid |-> RunId(k), updated_at |-> u[k]]] :
                   u \in [1 .. n -> Instants]} : n \in 0 .. MaxRunRows} : Sorted(t)}

\* WATERMARK_FILE when the run starts: absent, or left by an earlier run.
RunFiles == {FileAbsent, JsonDump(IsoFormatZ(1))}

InitRun ==
  /\ table \in RunTables
  /\ PAGE_SIZE \in 1 .. MaxRunRows
  /\ BATCH_SIZE \in (1 .. MaxBatchSize) \cup {10}
  /\ MAX_BATCH_PER_RUN \in {0, MaxCap}
  /\ wm_file \in RunFiles
  /\ tmp_file = FileAbsent
  /\ pc = "Idle"
  /\ FreshRun
  /\ FreshCall
  /\ InitHist
  /\ mrow = NoRow
  /\ mout = NoOut

\* run_once from its start to its return or its exception, the process
\* not being killed.
NextRun ==
  \/ StartFails
  \/ StartRun
  \/ LoopTop
  \/ FetchFails
  \/ MapPage
  \/ PostChunk
  \/ \E s \in BatchStatuses : HttpAttempt(s, NoHeader, 0)
  \/ ChunkReturned
  \/ ChunkRaised
  \/ CommitPage
  \/ SaveOpen
  \/ SaveWrite
  \/ SaveReplace
  \/ PageEnd

SpecRun == InitRun /\ [][NextRun]_vars

\* ============================================================= properties
RowsOf(seq) == {seq[j] : j \in 1 .. Len(seq)}

\* The watermark a run starting now would load.
Persisted == load_watermark(wm_file)

\* C1: save_watermark is called for a page only after post_batch returned
\* a success response for every chunk of that page, and the watermark file
\* was never replaced for a page with an unsent or unsuccessful chunk.
C1_SaveAfterAllChunks ==
  /\ save_ok
  /\ InSave => /\ i >= Len(changes)
               /\ RowsOf(rows) \subseteq page_accepted

\* C1 witness: a page of two chunks was committed.
C1_Witness ==
  /\ pc = "PageEnd"
  /\ Len(changes) > BATCH_SIZE
  /\ wm_file = JsonDump(newest_wm)
  /\ RowsOf(rows) \subseteq page_accepted

\* C2 (as the specification states it): at every point, every row whose change time is at most
\* the persisted watermark and after the watermark the first run started
\* from has been in a batch the target accepted.
C2_NoRowBehindWatermarkUnsent ==
  wm0 # <<>> =>
    \A k \in 1 .. Len(table) :
      (/\ table[k].updated_at <= ParseTimestamp(Persisted)
       /\ table[k].updated_at > ParseTimestamp(wm0)) => k \in accepted

\* C3: after a kill between the successful sends of a page and the end of
\* its save_watermark, the watermark the next run loads is earlier than
\* every row of that page, and the next run's first fetch returns that
\* page again.
C3_KillBeforeSaveRefetches ==
  crash_page # <<>> =>
    /\ \A r \in RowsOf(crash_page) : ParseTimestamp(Persisted) < table[r].updated_at
    /\ pc = "LoopTop" => newest_wm = Persisted
    /\ pc = "Mapping" => rows = crash_page

\* C3 witness: the run after such a kill fetched the two-row page again.
C3_Witness ==
  /\ pc = "Mapping"
  /\ Len(crash_page) = 2
  /\ rows = crash_page
  /\ RowsOf(crash_page) \subseteq accepted

\* C4: within one run the values passed to save_watermark never decrease
\* as instants, and none is earlier than the watermark the run loaded.
C4_SavedNonDecreasing ==
  pc # "Idle" =>
    /\ \A j \in 1 .. Len(saved) : ParseTimestamp(saved[j]) >= ParseTimestamp(loaded)
    /\ \A j \in 1 .. Len(saved) - 1 : ParseTimestamp(saved[j]) <= ParseTimestamp(saved[j + 1])

\* C4 witness: a run that loaded a saved watermark committed two pages
\* with different watermarks.
C4_Witness ==
  /\ pc = "PageEnd"
  /\ Len(saved) = 2
  /\ ParseTimestamp(saved[1]) < ParseTimestamp(saved[2])
  /\ ParseTimestamp(loaded) < ParseTimestamp(saved[1])

\* C5: when the first k <= MAX_RETRIES responses are transient and response
\* k+1 is a success, the call returns after exactly k+1 requests (and k
\* sleeps); the call never gives up while all it saw was at most MAX_RETRIES
\* transient responses; a first response of 400 ends the call by raising
\* after one request, with no retry and no sleep.
C5_RetryThenSuccessOr400 ==
  /\ (first_final[1] # 0 /\ first_final[2] \in SuccessStatuses) =>
       /\ first_final[1] <= MAX_RETRIES + 1
       /\ call = "returned"
       /\ nreq = first_final[1]
       /\ nsleep = first_final[1] - 1
  /\ (call = "raised" /\ first_final[1] = 0) => nreq > MAX_RETRIES
  /\ first_final = <<1, 400>> =>
       /\ call = "raised"
       /\ nreq = 1
       /\ attempt = 0
       /\ nsleep = 0

\* C5 witness: two transient responses, then 200 on the third request.
C5_Witness ==
  /\ first_final = <<3, 200>>
  /\ call = "returned"
  /\ nreq = 3
  /\ attempt = 2

\* C6 (as the specification states it): a response that is neither a success nor transient
\* ends the call by raising, and no request follows it.
C6_OtherStatusRaises ==
  (first_final[1] # 0 /\ first_final[2] \notin SuccessStatuses) =>
    /\ call = "raised"
    /\ nreq = first_final[1]

\* C7: with only transient responses the call retries exactly MAX_RETRIES
\* times, sleeping before each retry, and raises on response
\* MAX_RETRIES + 1; attempt never exceeds MAX_RETRIES and a new call
\* starts from attempt 0.
C7_RetryBudget ==
  /\ attempt <= MAX_RETRIES
  /\ nsleep = attempt
  /\ nreq = 0 => attempt = 0
  /\ (call = "running" /\ first_final[1] = 0) => (nreq = attempt /\ nreq <= MAX_RETRIES)
  /\ (call = "raised" /\ first_final[1] = 0) => (nreq = MAX_RETRIES + 1 /\ attempt = MAX_RETRIES)
  /\ (call # "idle" /\ first_final[1] = 0 /\ nreq = MAX_RETRIES + 1) => call = "raised"

\* C7 witness: the call raised on transient response MAX_RETRIES + 1.
C7_Witness ==
  /\ call = "raised"
  /\ first_final[1] = 0
  /\ nreq = MAX_RETRIES + 1
  /\ nsleep = MAX_RETRIES

\* C8 (as the specification states it): a row whose externalid is None or empty makes
\* map_row_to_request fail, so no chunk is ever posted for a page holding
\* such a row and no operation addressed as externalid='' is in a batch.
C8_NoEmptyKeyPosted ==
  call = "running" =>
    /\ \A r \in RowsOf(rows) : table[r].externalid \notin {NoneId, <<>>}
    /\ \A j \in 1 .. Len(changes) :
         changes[j].url_path # <<"new_customers", "(", "externalid", "=", "'", "'", ")">>

NotQuote(c) == c # "'"
Quotes(s) == Cardinality({k \in 1 .. Len(s) : s[k] = "'"})
QuotesBefore(s, k) == Cardinality({m \in 1 .. k - 1 : s[m] = "'"})

\* C9: for a string externalid s the path is new_customers(externalid='E')
\* where E is s with every single quote doubled and every other character
\* kept in place and order; E holds twice the single quotes of s.
C9_EscapeDoublesQuotes ==
  (mout # NoOut /\ mrow.externalid # NoneId) =>
    LET s == mrow.externalid
        p == mout.url_path
        E == SubSeq(p, 6, Len(p) - 2)
    IN /\ ~mout.raised
       /\ Len(p) >= 7
       /\ SubSeq(p, 1, 5) = <<"new_customers", "(", "externalid", "=", "'">>
       /\ SubSeq(p, Len(p) - 1, Len(p)) = <<"'", ")">>
       /\ Len(E) = Len(s) + Quotes(s)
       /\ \A k \in 1 .. Len(s) :
            /\ E[k + QuotesBefore(s, k)] = s[k]
            /\ s[k] = "'" => E[k + QuotesBefore(s, k) + 1] = "'"
       /\ SelectSeq(E, NotQuote) = SelectSeq(s, NotQuote)
       /\ Quotes(E) = 2 * Quotes(s)
       /\ Quotes(E) % 2 = 0

\* C9 witness: the identifier a, quote, b, quote is mapped to the path
\* holding a, two quotes, b, two quotes between the delimiting quotes.
C9_Witness ==
  /\ mrow.externalid = <<"a", "'", "b">>
  /\ mout.url_path =
       <<"new_customers", "(", "externalid", "=", "'", "a", "'", "'", "b", "'", ")">>

\* C10: whenever save_watermark is under way, and after a kill at any of
\* its steps, WATERMARK_FILE holds the complete previous content or the
\* complete new value, never a partial text; once the replace is done it
\* holds the new value.
C10_SaveAtomic ==
  /\ wm_file = FileAbsent \/ JsonValid(wm_file)
  /\ pc \in {"SaveOpen", "SaveWrite", "SaveReplace"} => wm_file = prev_file
  /\ pc = "PageEnd" => (wm_file = JsonDump(saved[Len(saved)]) /\ Persisted = saved[Len(saved)])
  /\ (pc = "Idle" /\ saved # <<>>) =>
       /\ wm_file \in {prev_file, JsonDump(saved[1])}
       /\ Persisted \in {load_watermark(prev_file), saved[1]}

\* C10 witness: a kill in the middle of the write left a partial temporary
\* file and the previous value in WATERMARK_FILE.
C10_Witness ==
  /\ pc = "Idle"
  /\ saved # <<>>
  /\ Len(tmp_file) = WriteCut
  /\ prev_file # FileAbsent
  /\ wm_file = prev_file
  /\ Persisted # saved[1]

\* C11 (as the specification states it): load_watermark never raises; it
\* returns DEFAULT_WATERMARK when the file is missing, unreadable, no valid
\* JSON or JSON without a usable "last" entry (a string), and the stored
\* "last" value otherwise; the run is not aborted by the file's content.
C11_LoadDefaultsUnlessUsable ==
  pc # "Idle" =>
    /\ pc = "LoopTop"
    /\ loaded = newest_wm
    /\ loaded = IF JsonValid(wm_file)
                  THEN SubSeq(wm_file, 5, Len(wm_file) - 2)
                  ELSE DEFAULT_WATERMARK

\* The envelopes posted for the page fetched last.
PageEnvelopes == SelectSeq(sent, LAMBDA e : e.page = Len(fetched))

\* C12: when post_batch raises for chunk k of a page, run_once ends there:
\* the chunks before k were accepted and no chunk after k is sent, no
\* further page is fetched, save_watermark is not called for the page, and
\* the persisted watermark is the value committed for the last page that
\* was fully successful, or what the run loaded when there is none.
C12_TerminalFailureStopsRun ==
  /\ [](pc = "Failed" /\ i < Len(changes) =>
          /\ page_accepted = {rows[j] : j \in 1 .. i}
          /\ Len(PageEnvelopes) = (i \div BATCH_SIZE) + 1
          /\ Len(saved) = Len(fetched) - 1
          /\ Persisted = IF saved = <<>> THEN loaded ELSE saved[Len(saved)]
          /\ saved = <<>> => wm_file \in RunFiles
          /\ saved # <<>> => wm_file = JsonDump(saved[Len(saved)]))
  /\ [][(pc = "Sending" /\ call = "raised") =>
          /\ pc' = "Failed"
          /\ UNCHANGED <<wm_file, tmp_file, saved, sent, fetched, newest_wm, total_processed>>]_vars
  /\ [][pc # "Failed"]_vars

\* C12 witness: the first page was committed and the only chunk of the
\* second page failed; the file holds the first page's watermark.
C12_Witness ==
  /\ pc = "Failed"
  /\ i < Len(changes)
  /\ Len(saved) = 1
  /\ Len(fetched) = 2
  /\ Persisted = saved[1]
  /\ Persisted # loaded
  /\ page_accepted = {}

\* C13 (as the specification states it): with three rows of change times
\* T1 < T2 < T3 after the default watermark, PAGE_SIZE 2, BATCH_SIZE 10, no
\* cap and no watermark file, the first fetch returns rows 1 and 2 and the
\* watermark becomes T2; the second returns row 3 and the watermark becomes
\* T3; a third fetch returns nothing and the run is done with
\* total_processed = 3.
C13_EndToEndThreeRows ==
  (/\ Len(table) = 3
   /\ table[1].updated_at < table[2].updated_at
   /\ table[2].updated_at < table[3].updated_at
   /\ PAGE_SIZE = 2
   /\ BATCH_SIZE = 10
   /\ MAX_BATCH_PER_RUN = 0
   /\ loaded = DEFAULT_WATERMARK
   /\ pc \notin {"Idle", "Failed"}) =>
    /\ Len(fetched) >= 1 => fetched[1] = <<1, 2>>
    /\ Len(saved) >= 1 => saved[1] = IsoFormatZ(table[2].updated_at)
    /\ Len(fetched) >= 2 => fetched[2] = <<3>>
    /\ Len(saved) >= 2 => saved[2] = IsoFormatZ(table[3].updated_at)
    /\ pc = "Done" =>
         /\ Len(fetched) = 3
         /\ fetched[3] = <<>>
         /\ total_processed = 3
         /\ Persisted = IsoFormatZ(table[3].updated_at)

\* C14 (as the specification states it): with MAX_BATCH_PER_RUN set to M,
\* total_processed is at most M in every state of a run, whatever
\* PAGE_SIZE is.
C14_HardCap ==
  MAX_BATCH_PER_RUN # 0 => total_processed <= MAX_BATCH_PER_RUN

\* C15 (as the specification states it): within one uninterrupted run over
\* a static table no row is placed in more than one posted envelope: the
\* envelopes of the run hold pairwise disjoint rows.
C15_NoRowInTwoEnvelopes ==
  \A a, b \in 1 .. Len(sent) :
    a < b => RowsOf(sent[a].rows) \cap RowsOf(sent[b].rows) = {}

\* The instant of the latest of the rows rs of the table.
RECURSIVE LatestInstant(_)
LatestInstant(rs) ==
  IF Len(rs) = 1 THEN table[rs[1]].updated_at
  ELSE LET m == LatestInstant(Tail(rs))
       IN IF table[rs[1]].updated_at > m THEN table[rs[1]].updated_at ELSE m

\* C16 (as the specification states it): the value passed to save_watermark
\* for a page is, as an instant, the latest among the previous cursor and
\* the change times of the rows of the page, which is the change time of
\* the page's latest row.
C16_SavedIsLatestInstant ==
  InSave =>
    LET cursor == IF Len(saved) = 1 THEN loaded ELSE saved[Len(saved) - 1]
        latest == LatestInstant(rows)
        s == ParseTimestamp(saved[Len(saved)])
    IN /\ s >= ParseTimestamp(cursor)
       /\ s >= latest
       /\ s = latest

\* The operations of an envelope: its PATCH parts, in order.
PatchOps(e) == SelectSeq(e.payload, LAMBDA p : p.kind = "PATCH")

\* C17: a page of n >= 1 operations is sent in ceil(n / BATCH_SIZE)
\* envelopes, one after another; envelope k holds the operations
\* (k-1)*BATCH_SIZE + 1 .. min(k*BATCH_SIZE, n) of the page in their
\* order, so at most BATCH_SIZE and exactly BATCH_SIZE in all but the
\* last, and its payload is one PATCH part per operation, in input order,
\* between the opening and the closing parts.
C17_ChunkingPreservesOrder ==
  (pc \in {"Sending", "Commit", "SaveOpen", "SaveWrite", "SaveReplace", "PageEnd"}) =>
    LET E == PageEnvelopes
        n == Len(changes)
        B == BATCH_SIZE
    IN /\ n >= 1
       /\ \A k \in 1 .. Len(E) :
            LET ops == PatchOps(E[k])
                p == E[k].payload
            IN /\ Len(ops) = Min(B, n - (k - 1) * B)
               /\ Len(ops) >= 1
               /\ Len(ops) <= B
               /\ k < Len(E) => Len(ops) = B
               /\ \A m \in 1 .. Len(ops) :
                    /\ ops[m].url_path = changes[(k - 1) * B + m].url_path
                    /\ ops[m].body = changes[(k - 1) * B + m].body
               /\ Len(p) = Len(ops) + 4
               /\ p[1].kind = "batch_start"
               /\ p[2].kind = "changeset_header"
               /\ \A m \in 1 .. Len(ops) : p[m + 2] = ops[m]
               /\ p[Len(p) - 1].kind = "changeset_end"
               /\ p[Len(p)].kind = "batch_end"
       /\ pc # "Sending" => Len(E) = (n + B - 1) \div B
       /\ pc = "Sending" =>
            Len(E) = (i \div B) + (IF call # "idle" /\ nreq > 0 THEN 1 ELSE 0)

\* C17 witness: a page of three operations, the first two for different
\* records, was sent with BATCH_SIZE 2 in two envelopes of two
\* operations and one.
C17_Witness ==
  /\ pc = "Commit"
  /\ Len(changes) = 3
  /\ changes[1].url_path # changes[2].url_path
  /\ BATCH_SIZE = 2
  /\ Len(PageEnvelopes) = 2
  /\ Len(PatchOps(PageEnvelopes[1])) = 2
  /\ Len(PatchOps(PageEnvelopes[2])) = 1

\* The delay, in milliseconds, a Retry-After value asks for: the number of
\* seconds of the delay-seconds form, and nothing for an HTTP-date that
\* lies in the past, as HttpDate does.
HeaderDelayMs(h) == IF h = HttpDate THEN 0 ELSE FloatMs(h)

\* C18 (as the specification states it): the wait before retry number a
\* is the value of the response's Retry-After header whenever the response
\* carried one, and otherwise BASE_BACKOFF * 2^(a-1) plus a jitter of at
\* least 0 and less than half a second, so that the jitter-free part
\* doubles from retry to retry, starting at BASE_BACKOFF.
C18_WaitIsRetryAfterOrBackoff ==
  (call # "idle" /\ attempt >= 1) =>
    /\ retry_after # NoHeader => wait = HeaderDelayMs(retry_after)
    /\ retry_after = NoHeader =>
         /\ wait - jitter = BASE_BACKOFF * (2 ^ (attempt - 1))
         /\ attempt = 1 => wait - jitter = BASE_BACKOFF
         /\ 0 <= jitter
         /\ jitter < 500

\* C19 (as the specification states it): without a cap, every committed
\* page of exactly PAGE_SIZE rows moves the cursor of the next fetch
\* strictly forward in time, no page is fetched twice, and the run
\* therefore ends after at most one fetch per row of the table and a last
\* one.
C19_FullPageAdvancesCursor ==
  (MAX_BATCH_PER_RUN = 0 /\ pc # "Idle") =>
    /\ (InSave /\ Len(rows) = PAGE_SIZE) =>
         LET cursor == IF Len(saved) = 1 THEN loaded ELSE saved[Len(saved) - 1]
         IN ParseTimestamp(newest_wm) > ParseTimestamp(cursor)
    /\ \A a, b \in 1 .. Len(fetched) : a < b => fetched[a] # fetched[b]
    /\ Len(fetched) <= Len(table) + 1

\* The number of rows in the pages ps.
RECURSIVE RowCount(_)
RowCount(ps) == IF ps = <<>> THEN 0 ELSE Len(Head(ps)) + RowCount(Tail(ps))

\* C20: every envelope posted holds at least one operation; save_watermark
\* is called for pages with rows only; and when fetch_rows_after returns
\* no rows the run is done with the cursor, the watermark file and
\* total_processed as the last committed page left them.
C20_NoEmptyEnvelopeNoEmptySave ==
  /\ \A e \in 1 .. Len(sent) : Len(PatchOps(sent[e])) >= 1 /\ sent[e].rows # <<>>
  /\ (pc = "Sending" /\ call # "idle") => Len(Chunk) >= 1
  /\ (pc = "Commit" \/ InSave) => rows # <<>>
  /\ Len(saved) <= Len(fetched)
  /\ \A j \in 1 .. Len(saved) : fetched[j] # <<>>
  /\ (fetched # <<>> /\ fetched[Len(fetched)] = <<>>) =>
       /\ pc = "Done"
       /\ Len(saved) = Len(fetched) - 1
       /\ newest_wm = IF saved = <<>> THEN loaded ELSE saved[Len(saved)]
       /\ saved = <<>> => wm_file \in RunFiles
       /\ saved # <<>> => wm_file = JsonDump(saved[Len(saved)])
       /\ tmp_file = FileAbsent
       /\ total_processed = RowCount(SubSeq(fetched, 1, Len(fetched) - 1))

\* C20 witness: after one committed page of two rows the second fetch
\* returned nothing and the run was done with two rows processed.
C20_Witness ==
  /\ pc = "Done"
  /\ Len(fetched) = 2
  /\ Len(fetched[1]) = 2
  /\ fetched[2] = <<>>
  /\ Len(saved) = 1
  /\ Len(sent) >= 1
  /\ total_processed = 2
  /\ wm_file = JsonDump(saved[1])

====
